---- MODULE Spec2Model ----
(***************************************************************************)
(* Model of the attach sequence of re4_ap_mod (src/dllmain/dllmain.cpp):   *)
(* the entry point DllMain and the initialisation routine Init_Main.       *)
(*                                                                         *)
(* One process of the host is modelled at a time; the filesystem outlives  *)
(* the process.  Control positions are named after the source line the     *)
(* next statement to execute starts on ("L75" = dllmain.cpp line 75);      *)
(* "host" means control is in the host, outside DllMain.                   *)
(***************************************************************************)
EXTENDS Naturals, Sequences, FiniteSets

VARIABLES
    pc,                 \* control position of the attaching thread
    fs,                 \* filesystem: status of every path the code touches
    writable,           \* whether a file can be created in the working directory
    g_module_handle,    \* dllmain.cpp:15
    wrappersInit,       \* Init_Wrappers() has run in this process
    handlerInstalled,   \* re4t::init::ExceptionHandler() has run in this process
    bIsUsingHDProject,  \* re4ap::cfg->bIsUsingHDProject
    notifyNo,           \* DllMain notifications delivered to this process
    attachNo,           \* of which DLL_PROCESS_ATTACH
    procNo,             \* number of the current process on this filesystem
    trace,              \* calls made during the latest attach, in order
    outcome,            \* result of each step during the latest attach
    exitPath,           \* how Init_Main ended during the latest attach
    log,                \* entries written to console/log by this process
    lastReason,         \* fdwReason of the latest notification
    lastResult          \* value DllMain returned for the latest notification

vars == <<pc, fs, writable, g_module_handle, wrappersInit, handlerInstalled,
          bIsUsingHDProject, notifyNo, attachNo, procNo, trace, outcome,
          exitPath, log, lastReason, lastResult>>

(***************************************************************************)
(* Bounds.                                                                 *)
(***************************************************************************)
MaxNotify == 2      \* notifications delivered to one process
MaxProcesses == 2   \* successive processes run against the same filesystem

(***************************************************************************)
(* Names.                                                                  *)
(***************************************************************************)
APPID == "steam_appid.txt"
BIO4EXE == "bio4.exe"
ROOT == "rootPath"
XSB == "snd\\doorse012.xsb"
XWB == "snd\\doorse012.xwb"
Paths == {APPID, BIO4EXE, ROOT, XSB, XWB}

\* The text written on dllmain.cpp line 29.
AppIdContent == "254700"
\* A file status: no such file, the status query fails, or the file is there
\* (for steam_appid.txt the status of an existing file is its content).
Absent == "absent"
IoError == "error"
Present == "present"
UserContent == "custom"

Reasons == {"DLL_PROCESS_ATTACH", "DLL_PROCESS_DETACH",
            "DLL_THREAD_ATTACH", "DLL_THREAD_DETACH"}

\* The six initialisation steps, in the numbering of the specification, and the
\* marker-file probe of lines 43-47.
Step1 == "Game"
Step2 == "provision"
Step3 == "logging"
Step4 == "HDProject"
Step5 == "init"
Step6 == "ReadConnection"
Probe == "probe"
Steps == {Step1, Step2, Step3, Step4, Step5, Step6}
FatalSteps == {Step1, Step5}
SoftSteps == {Step2, Step3, Step4, Step6}
Tracked == Steps \cup {Probe}
NoOutcome == [s \in Tracked |-> "none"]

(***************************************************************************)
(* Library functions, as the code uses them.                               *)
(***************************************************************************)
\* std::filesystem::exists(path): true or false, or throws filesystem_error
\* when the status of the path cannot be determined.
Exists(st) ==
    CASE st = IoError -> "throw"
      [] st = Absent -> "false"
      [] OTHER -> "true"

\* std::filesystem::canonical(rootPath): throws when the path cannot be resolved.
Canonical(st) == IF st = Present THEN "ok" ELSE "throw"

Append2(s, a, b) == Append(Append(s, a), b)

(***************************************************************************)
(* What the collaborators called by Init_Main can report.  Their code is   *)
(* outside dllmain.cpp; the interfaces are those of the specification,     *)
(* section 6, plus a fault raised inside the call.                         *)
(***************************************************************************)
\* detect_host(): known host, unknown host (fails closed), or a fault.
GameResults == {"ok", "failed", "fault"}
\* Variant activation: done, an error, or a fault.
HDProjectResults == {"ok", "failed", "fault"}
\* Input subsystem, init() -> bool.
InputResults == {"ok", "failed", "fault"}
\* Configuration store, load_and_apply() -> bool.
ConfigResults == {"ok", "failed", "fault"}

(***************************************************************************)
(* Decisions taken by the code, one operator per condition.                *)
(***************************************************************************)
\* Variant of AttachSuccessor: Init_Main is entered without the handler.
AttachSuccessor_NoHandler(p) ==
    CASE p = "L75" -> "L77"
      [] p = "L77" -> "L19"
      [] p = "L79" -> "L19"

\* DllMain, case DLL_PROCESS_ATTACH (lines 75-81): the statement that follows
\* the one at position p.  Init_Main starts on line 19.
AttachSuccessor(p) ==
    CASE p = "L75" -> "L77"
      [] p = "L77" -> "L79"
      [] p = "L79" -> "L19"

\* Variant of GameGate: on failure control stays on line 23 instead of
\* returning from Init_Main.
GameGate_NoExit(r) == IF r = "ok" THEN "L26" ELSE "L23"

\* Variant of GameGate: the result of Game() is not tested.
GameGate_NoReturn(r) == "L26"

\* Lines 22-23: "if (!re4t::init::Game()) return;".  r is what Game() returned;
\* "L83" is the statement after the call of Init_Main.
GameGate(r) == IF r = "ok" THEN "L26" ELSE "L83"

\* Variant of ProvisionVerdict: bio4.exe is not tested.
ProvisionVerdict_NoMarkerCheck(appidSt, bio4St) ==
    CASE Exists(appidSt) = "throw" -> "throw"
      [] Exists(appidSt) = "true" -> "skip"
      [] OTHER -> "create"

\* Variant of ProvisionVerdict: only bio4.exe is tested.
ProvisionVerdict_NoExistCheck(appidSt, bio4St) ==
    CASE Exists(bio4St) = "throw" -> "throw"
      [] Exists(bio4St) = "false" -> "skip"
      [] OTHER -> "create"

\* Line 26: !exists("steam_appid.txt") && exists("bio4.exe"), evaluated left
\* to right with short circuit.
ProvisionVerdict(appidSt, bio4St) ==
    CASE Exists(appidSt) = "throw" -> "throw"
      [] Exists(appidSt) = "true" -> "skip"
      [] Exists(bio4St) = "throw" -> "throw"
      [] Exists(bio4St) = "false" -> "skip"
      [] OTHER -> "create"

\* Line 47: exists(doorse012_xsb_path) && exists(doorse012_xwb_path).
ProbeVerdict(xsbSt, xwbSt) ==
    CASE Exists(xsbSt) = "throw" -> "throw"
      [] Exists(xsbSt) = "false" -> "absent"
      [] Exists(xwbSt) = "throw" -> "throw"
      [] Exists(xwbSt) = "false" -> "absent"
      [] OTHER -> "present"

\* Lines 60-63: the value of pInput->init() is discarded; ReadConnection() is
\* the next statement whatever init() reported.
AfterInput(r) == "L63"

(***************************************************************************)
(* Initial state: a freshly started process on an arbitrary filesystem.    *)
(***************************************************************************)
FileSystems ==
    { f \in [Paths -> {Absent, IoError, Present, AppIdContent, UserContent}] :
        /\ f[APPID] \in {Absent, IoError, AppIdContent, UserContent}
        /\ f[BIO4EXE] \in {Absent, IoError, Present}
        /\ f[ROOT] \in {IoError, Present}
        /\ f[XSB] \in {Absent, IoError, Present}
        /\ f[XWB] \in {Absent, IoError, Present} }

Init ==
    /\ pc = "host"
    /\ fs \in FileSystems
    /\ writable \in BOOLEAN
    /\ g_module_handle = "nullptr"
    /\ wrappersInit = FALSE
    /\ handlerInstalled = FALSE
    /\ bIsUsingHDProject = FALSE
    /\ notifyNo = 0
    /\ attachNo = 0
    /\ procNo = 1
    /\ trace = <<>>
    /\ outcome = NoOutcome
    /\ exitPath = "none"
    /\ log = <<>>
    /\ lastReason = "none"
    /\ lastResult = "none"

(***************************************************************************)
(* DllMain.                                                                *)
(***************************************************************************)
\* Lines 67-73: the host delivers DLL_PROCESS_ATTACH.  Nothing in DllMain
\* looks at earlier notifications.
DllMain_Attach ==
    /\ pc = "host"
    /\ notifyNo < MaxNotify
    /\ pc' = "L75"
    /\ notifyNo' = notifyNo + 1
    /\ attachNo' = attachNo + 1
    /\ lastReason' = "DLL_PROCESS_ATTACH"
    /\ lastResult' = "none"
    /\ trace' = <<>>
    /\ outcome' = NoOutcome
    /\ exitPath' = "none"
    /\ UNCHANGED <<fs, writable, g_module_handle, wrappersInit,
                   handlerInstalled, bIsUsingHDProject, procNo, log>>

\* Variant of DllMain_Other: the reason is not examined, every notification
\* enters the attach case.
DllMain_Other_NoSwitch ==
    /\ pc = "host"
    /\ notifyNo < MaxNotify
    /\ \E r \in Reasons \ {"DLL_PROCESS_ATTACH"} : lastReason' = r
    /\ notifyNo' = notifyNo + 1
    /\ lastResult' = "none"
    /\ pc' = "L75"
    /\ UNCHANGED <<fs, writable, g_module_handle, wrappersInit,
                   handlerInstalled, bIsUsingHDProject, attachNo, procNo,
                   trace, outcome, exitPath, log>>

\* Lines 71, 84-88: any other reason falls through the switch to "return true".
DllMain_Other ==
    /\ pc = "host"
    /\ notifyNo < MaxNotify
    /\ \E r \in Reasons \ {"DLL_PROCESS_ATTACH"} : lastReason' = r
    /\ notifyNo' = notifyNo + 1
    /\ lastResult' = "true"
    /\ UNCHANGED <<pc, fs, writable, g_module_handle, wrappersInit,
                   handlerInstalled, bIsUsingHDProject, attachNo, procNo,
                   trace, outcome, exitPath, log>>

\* Line 75.
DllMain_L75 ==
    /\ pc = "L75"
    /\ g_module_handle' = "hModule"
    /\ pc' = AttachSuccessor("L75")
    /\ UNCHANGED <<fs, writable, wrappersInit, handlerInstalled,
                   bIsUsingHDProject, notifyNo, attachNo, procNo, trace,
                   outcome, exitPath, log, lastReason, lastResult>>

\* Line 77.
Init_Wrappers ==
    /\ pc = "L77"
    /\ wrappersInit' = TRUE
    /\ trace' = Append(trace, "Init_Wrappers")
    /\ pc' = AttachSuccessor("L77")
    /\ UNCHANGED <<fs, writable, g_module_handle, handlerInstalled,
                   bIsUsingHDProject, notifyNo, attachNo, procNo, outcome,
                   exitPath, log, lastReason, lastResult>>

\* Line 79.
ExceptionHandler ==
    /\ pc = "L79"
    /\ handlerInstalled' = TRUE
    /\ trace' = Append(trace, "ExceptionHandler")
    /\ pc' = AttachSuccessor("L79")
    /\ UNCHANGED <<fs, writable, g_module_handle, wrappersInit,
                   bIsUsingHDProject, notifyNo, attachNo, procNo, outcome,
                   exitPath, log, lastReason, lastResult>>

\* Variant of DllMain_Return: the value returned tells whether Init_Main ran
\* to its end.
DllMain_Return_Outcome ==
    /\ pc = "L83"
    /\ lastResult' = IF exitPath = "L64" THEN "true" ELSE "false"
    /\ pc' = "host"
    /\ UNCHANGED <<fs, writable, g_module_handle, wrappersInit,
                   handlerInstalled, bIsUsingHDProject, notifyNo, attachNo,
                   procNo, trace, outcome, exitPath, log, lastReason>>

\* Lines 83-88: break; return true.
DllMain_Return ==
    /\ pc = "L83"
    /\ lastResult' = "true"
    /\ pc' = "host"
    /\ UNCHANGED <<fs, writable, g_module_handle, wrappersInit,
                   handlerInstalled, bIsUsingHDProject, notifyNo, attachNo,
                   procNo, trace, outcome, exitPath, log, lastReason>>

(***************************************************************************)
(* Init_Main, statement by statement.                                      *)
(***************************************************************************)
\* Line 19: con.log(...).
Init_Main_L19 ==
    /\ pc = "L19"
    /\ log' = Append(log, "greeting")
    /\ pc' = "L22"
    /\ UNCHANGED <<fs, writable, g_module_handle, wrappersInit,
                   handlerInstalled, bIsUsingHDProject, notifyNo, attachNo,
                   procNo, trace, outcome, exitPath, lastReason, lastResult>>

\* Lines 21-23, step 1: re4t::init::Game() reports success or failure, or
\* raises a fault; on failure Init_Main returns at once and writes nothing.
Game ==
    /\ pc = "L22"
    /\ \E r \in GameResults :
         /\ outcome' = [outcome EXCEPT ![Step1] = r]
         /\ pc' = IF r = "fault" THEN "fault" ELSE GameGate(r)
         /\ exitPath' = IF r # "fault" /\ GameGate(r) = "L83" THEN "L23" ELSE exitPath
    /\ trace' = Append(trace, Step1)
    /\ UNCHANGED <<fs, writable, g_module_handle, wrappersInit,
                   handlerInstalled, bIsUsingHDProject, notifyNo, attachNo,
                   procNo, log, lastReason, lastResult>>

\* Lines 25-31, step 2: create steam_appid.txt.  An ofstream that cannot open
\* its file sets its fail bit; the insertion and close() then do nothing and
\* nothing is reported.
Provision ==
    /\ pc = "L26"
    /\ trace' = Append(trace, Step2)
    /\ LET v == ProvisionVerdict(fs[APPID], fs[BIO4EXE]) IN
         /\ pc' = IF v = "throw" THEN "fault" ELSE "L34"
         /\ fs' = IF v = "create" /\ writable
                     THEN [fs EXCEPT ![APPID] = AppIdContent]
                     ELSE fs
         /\ outcome' = [outcome EXCEPT ![Step2] =
                           CASE v = "throw" -> "fault"
                             [] v = "skip" -> "skipped"
                             [] v = "create" /\ writable -> "ok"
                             [] OTHER -> "failed"]
    /\ UNCHANGED <<writable, g_module_handle, wrappersInit, handlerInstalled,
                   bIsUsingHDProject, notifyNo, attachNo, procNo, exitPath,
                   log, lastReason, lastResult>>

\* Lines 33-40, step 3: four entries to the log sink.
Logging ==
    /\ pc = "L34"
    /\ trace' = Append(trace, Step3)
    /\ log' = log \o <<"starting", "process", "running_from", "game_version">>
    /\ outcome' = [outcome EXCEPT ![Step3] = "ok"]
    /\ pc' = "L43"
    /\ UNCHANGED <<fs, writable, g_module_handle, wrappersInit,
                   handlerInstalled, bIsUsingHDProject, notifyNo, attachNo,
                   procNo, exitPath, lastReason, lastResult>>

\* Variant of Init_Main_L43: the test of line 47 is missing, HDProject() is
\* called right after the path is resolved.
Init_Main_L43_NoProbe ==
    /\ pc = "L43"
    /\ trace' = Append(trace, "canonical")
    /\ IF Canonical(fs[ROOT]) = "throw"
         THEN /\ pc' = "fault"
              /\ outcome' = [outcome EXCEPT ![Probe] = "fault"]
         ELSE /\ pc' = "L56"
              /\ UNCHANGED outcome
    /\ UNCHANGED <<fs, writable, g_module_handle, wrappersInit,
                   handlerInstalled, bIsUsingHDProject, notifyNo, attachNo,
                   procNo, exitPath, log, lastReason, lastResult>>

\* Line 43: std::filesystem::canonical(rootPath).
Init_Main_L43 ==
    /\ pc = "L43"
    /\ trace' = Append(trace, "canonical")
    /\ IF Canonical(fs[ROOT]) = "throw"
         THEN /\ pc' = "fault"
              /\ outcome' = [outcome EXCEPT ![Probe] = "fault"]
         ELSE /\ pc' = "L47"
              /\ UNCHANGED outcome
    /\ UNCHANGED <<fs, writable, g_module_handle, wrappersInit,
                   handlerInstalled, bIsUsingHDProject, notifyNo, attachNo,
                   procNo, exitPath, log, lastReason, lastResult>>

\* Variant of Init_Main_L47: the call of pInput->init() sits inside the block
\* of the if, so that without the markers line 63 follows at once.
Init_Main_L47_InitInsideIf ==
    /\ pc = "L47"
    /\ trace' = Append(trace, Probe)
    /\ LET v == ProbeVerdict(fs[XSB], fs[XWB]) IN
         /\ pc' = CASE v = "throw" -> "fault"
                    [] v = "absent" -> "L63"
                    [] OTHER -> "L56"
         /\ outcome' = CASE v = "throw" -> [outcome EXCEPT ![Probe] = "fault"]
                         [] v = "absent" ->
                              [outcome EXCEPT ![Probe] = "ok", ![Step4] = "skipped"]
                         [] OTHER -> [outcome EXCEPT ![Probe] = "ok"]
         /\ log' = IF v = "present"
                      THEN Append2(log, "hd_detected_con", "hd_detected_spd")
                      ELSE log
         /\ bIsUsingHDProject' = IF v = "present" THEN TRUE ELSE bIsUsingHDProject
    /\ UNCHANGED <<fs, writable, g_module_handle, wrappersInit,
                   handlerInstalled, notifyNo, attachNo, procNo, exitPath,
                   lastReason, lastResult>>

\* Lines 44-55: the two existence checks; when both files are there, two log
\* entries (VERBOSE is defined, dllmain.h:19) and the flag.
Init_Main_L47 ==
    /\ pc = "L47"
    /\ trace' = Append(trace, Probe)
    /\ LET v == ProbeVerdict(fs[XSB], fs[XWB]) IN
         /\ pc' = CASE v = "throw" -> "fault"
                    [] v = "absent" -> "L60"
                    [] OTHER -> "L56"
         /\ outcome' = CASE v = "throw" -> [outcome EXCEPT ![Probe] = "fault"]
                         [] v = "absent" ->
                              [outcome EXCEPT ![Probe] = "ok", ![Step4] = "skipped"]
                         [] OTHER -> [outcome EXCEPT ![Probe] = "ok"]
         /\ log' = IF v = "present"
                      THEN Append2(log, "hd_detected_con", "hd_detected_spd")
                      ELSE log
         /\ bIsUsingHDProject' = IF v = "present" THEN TRUE ELSE bIsUsingHDProject
    /\ UNCHANGED <<fs, writable, g_module_handle, wrappersInit,
                   handlerInstalled, notifyNo, attachNo, procNo, exitPath,
                   lastReason, lastResult>>

\* Line 56, step 4: re4ap::init::HDProject().
HDProject ==
    /\ pc = "L56"
    /\ trace' = Append(trace, Step4)
    /\ \E r \in HDProjectResults :
         /\ outcome' = [outcome EXCEPT ![Step4] = r]
         /\ pc' = IF r = "fault" THEN "fault" ELSE "L60"
    /\ UNCHANGED <<fs, writable, g_module_handle, wrappersInit,
                   handlerInstalled, bIsUsingHDProject, notifyNo, attachNo,
                   procNo, exitPath, log, lastReason, lastResult>>

\* Line 60, step 5: pInput->init().
init ==
    /\ pc = "L60"
    /\ trace' = Append(trace, Step5)
    /\ \E r \in InputResults :
         /\ outcome' = [outcome EXCEPT ![Step5] = r]
         /\ pc' = IF r = "fault" THEN "fault" ELSE AfterInput(r)
    /\ UNCHANGED <<fs, writable, g_module_handle, wrappersInit,
                   handlerInstalled, bIsUsingHDProject, notifyNo, attachNo,
                   procNo, exitPath, log, lastReason, lastResult>>

\* Lines 63-64, step 6: re4ap::cfg->ReadConnection(), then Init_Main returns.
ReadConnection ==
    /\ pc = "L63"
    /\ trace' = Append(trace, Step6)
    /\ \E r \in ConfigResults :
         /\ outcome' = [outcome EXCEPT ![Step6] = r]
         /\ pc' = IF r = "fault" THEN "fault" ELSE "L83"
         /\ exitPath' = IF r = "fault" THEN exitPath ELSE "L64"
    /\ UNCHANGED <<fs, writable, g_module_handle, wrappersInit,
                   handlerInstalled, bIsUsingHDProject, notifyNo, attachNo,
                   procNo, log, lastReason, lastResult>>

\* A fault raised inside Init_Main while the handler of line 79 is in place:
\* it is intercepted and logged, the rest of Init_Main is abandoned and
\* control goes back to the host through the end of DllMain.
ContainFault ==
    /\ pc = "fault"
    /\ handlerInstalled
    /\ log' = Append(log, "contained_fault")
    /\ exitPath' = "fault"
    /\ pc' = "L83"
    /\ UNCHANGED <<fs, writable, g_module_handle, wrappersInit,
                   handlerInstalled, bIsUsingHDProject, notifyNo, attachNo,
                   procNo, trace, outcome, lastReason, lastResult>>

(***************************************************************************)
(* The process ends and the host is started again on the same filesystem:  *)
(* every global of the module is back at its initial value.                *)
(***************************************************************************)
ProcessRestart ==
    /\ pc = "host"
    /\ notifyNo > 0
    /\ procNo < MaxProcesses
    /\ procNo' = procNo + 1
    /\ g_module_handle' = "nullptr"
    /\ wrappersInit' = FALSE
    /\ handlerInstalled' = FALSE
    /\ bIsUsingHDProject' = FALSE
    /\ notifyNo' = 0
    /\ attachNo' = 0
    /\ trace' = <<>>
    /\ outcome' = NoOutcome
    /\ exitPath' = "none"
    /\ log' = <<>>
    /\ lastReason' = "none"
    /\ lastResult' = "none"
    /\ UNCHANGED <<pc, fs, writable>>

Next ==
    \/ DllMain_Attach
    \/ DllMain_Other
    \/ DllMain_L75
    \/ Init_Wrappers
    \/ ExceptionHandler
    \/ Init_Main_L19
    \/ Game
    \/ Provision
    \/ Logging
    \/ Init_Main_L43
    \/ Init_Main_L47
    \/ HDProject
    \/ init
    \/ ReadConnection
    \/ ContainFault
    \/ DllMain_Return
    \/ ProcessRestart

Spec == Init /\ [][Next]_vars

(***************************************************************************)
(* The lifecycle of the specification, read off the control positions:     *)
(* Uninitialized before the first attach of the process, Attaching while   *)
(* an attach is inside DllMain, then Ready when Init_Main ran to its last  *)
(* line (64) and Failed when it returned on line 23 or ended in a fault.   *)
(***************************************************************************)
AttachState ==
    CASE attachNo = 0 -> "Uninitialized"
      [] attachNo > 0 /\ pc # "host" -> "Attaching"
      [] attachNo > 0 /\ pc = "host" /\ exitPath = "L64" -> "Ready"
      [] OTHER -> "Failed"

\* An attach pass is over: control is back in the host.
PassEnded == attachNo > 0 /\ pc = "host"

InTrace(e) == \E i \in DOMAIN trace : trace[i] = e
Count(seq, e) == Cardinality({i \in DOMAIN seq : seq[i] = e})
Failed(s) == outcome[s] \in {"failed", "fault"}

TypeOK ==
    /\ pc \in {"host", "L75", "L77", "L79", "L19", "L22", "L26", "L34", "L43",
               "L47", "L56", "L60", "L63", "L83", "fault"}
    /\ fs \in FileSystems
    /\ notifyNo \in 0..MaxNotify /\ attachNo \in 0..notifyNo
    /\ procNo \in 1..MaxProcesses
    /\ outcome \in [Tracked -> {"none", "ok", "failed", "fault", "skipped"}]
    /\ exitPath \in {"none", "L23", "L64", "fault"}

(***************************************************************************)
(* Claims C1-C10.                                                          *)
(***************************************************************************)
InitMainCalls == Tracked \cup {"canonical"}
InitMainPositions == {"L19", "L22", "L26", "L34", "L43", "L47", "L56", "L60",
                      "L63", "fault"}
\* Log entries that report nothing but normal progress.
ProgressEntries == {"greeting", "starting", "process", "running_from",
                    "game_version", "hd_detected_con", "hd_detected_spd"}
FailureEntries == {i \in DOMAIN log : log[i] \notin ProgressEntries}
BothMarkers == fs[XSB] = Present /\ fs[XWB] = Present
MarkerMissing == fs[XSB] = Absent \/ fs[XWB] = Absent

\* C1: of several attach notifications in one process only the first does
\* any work; a later one calls nothing.
C1_OnlyFirstAttachWorks ==
    attachNo > 1 => (trace = <<>> /\ pc \in {"host", "L75"})

\* C2: when step 5 (pInput->init()) fails, step 6 (ReadConnection) is not
\* executed in that attach.
C2_NoConfigAfterInputFailure ==
    Failed(Step5) => ~InTrace(Step6)

\* C3: when step 1 (Game()) fails, none of steps 2-6 nor the probe is invoked,
\* no artifact is written, and the pass ends in state Failed.
C3_Step1FailureStopsPass ==
    Failed(Step1) =>
        /\ \A e \in InitMainCalls \ {Step1} : ~InTrace(e)
        /\ \A s \in Tracked \ {Step1} : outcome[s] = "none"
        /\ pc \in {"fault", "L83", "host"}
        /\ PassEnded => AttachState = "Failed"

C3_Witness ==
    /\ PassEnded
    /\ outcome[Step1] = "failed"
    /\ trace = <<"Init_Wrappers", "ExceptionHandler", Step1>>

\* C4: a fault or error inside one Soft step (no Fatal step and no probe
\* failure involved) does not keep input init and configuration load from
\* running.
C4_SoftFaultDoesNotStopLaterSteps ==
    ( /\ PassEnded
      /\ \E s \in SoftSteps \ {Step6} : Failed(s)
      /\ \A s \in FatalSteps : ~Failed(s)
      /\ outcome[Probe] # "fault" )
    => (InTrace(Step5) /\ InTrace(Step6))

\* C5: in an attach where step 1 succeeded, HDProject() is called exactly once
\* and the flag is true when both marker files are present; it is not called
\* and the flag is false when one of them is absent.
C5_VariantActivationFollowsMarkers ==
    (PassEnded /\ outcome[Step1] = "ok") =>
        /\ BothMarkers => (Count(trace, Step4) = 1 /\ bIsUsingHDProject)
        /\ MarkerMissing => (~InTrace(Step4) /\ ~bIsUsingHDProject)

\* C6: an existing steam_appid.txt, whatever its content, is never changed by
\* any step of any process, and the provisioning step raises no fault on it.
C6_ArtifactNeverOverwritten ==
    [][ fs[APPID] \in {AppIdContent, UserContent} =>
          /\ fs'[APPID] = fs[APPID]
          /\ (pc = "L26" => pc' = "L34" /\ outcome'[Step2] = "skipped") ]_vars

C6_Witness ==
    /\ procNo = 2
    /\ PassEnded
    /\ outcome[Step2] = "skipped"
    /\ fs[APPID] = UserContent
    /\ fs[BIO4EXE] = Present
    /\ writable

C8_ProbeErrorMeansAbsent ==
    (PassEnded /\ outcome[Probe] = "fault") =>
        /\ ~bIsUsingHDProject
        /\ ~InTrace(Step4)
        /\ InTrace(Step5)
        /\ InTrace(Step6)

\* C9: at the end of a pass the state is Ready exactly when no Fatal step
\* failed, and the value DllMain returns tells Ready from Failed.
C9_ReadyIffNoFatalFailure ==
    PassEnded =>
        /\ (AttachState = "Ready") <=> (\A s \in FatalSteps : ~Failed(s))
        /\ (lastResult = "true") <=> (AttachState = "Ready")

\* C10: when Game() reports an unknown host, the log of the pass holds exactly
\* one entry reporting the failure and no artifact is created.
C10_OneFatalLogEntry ==
    (PassEnded /\ attachNo = 1 /\ outcome[Step1] = "failed") =>
        /\ Cardinality(FailureEntries) = 1
        /\ ~InTrace(Step2)

(***************************************************************************)
(* Claims C11-C18.                                                         *)
(***************************************************************************)
\* Every occurrence of e in the trace comes after an occurrence of d.
Precedes(d, e) ==
    \A i \in DOMAIN trace :
        trace[i] = e => \E j \in 1..(i - 1) : trace[j] = d

\* C11 as stated: every attach evaluates the marker-file probe exactly once,
\* and before any of steps 1-6.
C11_ProbeOnceBeforeAllSteps ==
    /\ PassEnded => Count(trace, Probe) = 1
    /\ \A s \in Steps : Precedes(Probe, s)

\* C11 amended: an attach evaluates the probe at most once; the evaluation
\* comes after steps 1-3 and before variant activation, input init and
\* configuration load, none of which runs without it; an attach that ends
\* before line 47 does not evaluate it.
C11_ProbeOnceBeforeItsUsers ==
    /\ Count(trace, Probe) <= 1
    /\ \A s \in {Step4, Step5, Step6} : Precedes(Probe, s)
    /\ \A s \in {Step1, Step2, Step3} : Precedes(s, Probe)
    /\ (Failed(Step1) \/ outcome[Step2] = "fault") => ~InTrace(Probe)

C11_Witness ==
    /\ PassEnded
    /\ trace = <<"Init_Wrappers", "ExceptionHandler", Step1, Step2, Step3,
                 "canonical", Probe, Step4, Step5, Step6>>
    /\ bIsUsingHDProject

\* C12: when steam_appid.txt cannot be created (and nothing else goes wrong),
\* the failure is logged, the pass still ends Ready and every later step runs.
C12_CreationFailureLoggedAndIgnored ==
    ( /\ PassEnded
      /\ attachNo = 1
      /\ outcome[Step2] = "failed"
      /\ \A s \in Tracked \ {Step2} : ~Failed(s) )
    => /\ Cardinality(FailureEntries) >= 1
       /\ AttachState = "Ready"
       /\ \A s \in {Step3, Step5, Step6} : InTrace(s)

\* Number of times line 55 has assigned the flag in this process: every
\* assignment is preceded by the log entry of line 53.
FlagWrites == Count(log, "hd_detected_spd")

\* C13: within one process the flag is assigned at most once, and only by the
\* probe of line 47; no other step changes its value.
C13_FlagWrittenOnce ==
    [][ procNo' = procNo =>
          /\ FlagWrites' <= 1
          /\ (bIsUsingHDProject' # bIsUsingHDProject => pc = "L47") ]_vars

(***************************************************************************)
(* Scheduling: the attach sequence runs synchronously on the thread that   *)
(* delivers the notification; every statement of DllMain and Init_Main     *)
(* returns, so a statement that can execute does execute.  Nothing obliges *)
(* the host to deliver a notification or to restart.                       *)
(***************************************************************************)
AttachStep ==
    \/ DllMain_L75
    \/ Init_Wrappers
    \/ ExceptionHandler
    \/ Init_Main_L19
    \/ Game
    \/ Provision
    \/ Logging
    \/ Init_Main_L43
    \/ Init_Main_L47
    \/ HDProject
    \/ init
    \/ ReadConnection
    \/ ContainFault
    \/ DllMain_Return

FairSpec == Spec /\ WF_vars(AttachStep)

\* C14: an attach that has begun always ends: from Attaching the state
\* eventually becomes Ready or Failed, with control back in the host.
C14_AttachEnds ==
    (AttachState = "Attaching") ~> (AttachState \in {"Ready", "Failed"})

C14_Witness ==
    /\ attachNo = 2
    /\ AttachState = "Ready"
    /\ lastReason = "DLL_PROCESS_ATTACH"

\* The number the specification gives each step.
StepNo(s) ==
    CASE s = Step1 -> 1
      [] s = Step2 -> 2
      [] s = Step3 -> 3
      [] s = Step4 -> 4
      [] s = Step5 -> 5
      [] s = Step6 -> 6

\* C15: within an attach the steps that run, run in the order 1 < 2 < 3 < 4 <
\* 5 < 6 (none twice), and ReadConnection() is never called unless
\* pInput->init() was called before it.
C15_StepsInFixedOrder ==
    /\ \A i, j \in DOMAIN trace :
          (i < j /\ trace[i] \in Steps /\ trace[j] \in Steps)
              => StepNo(trace[i]) < StepNo(trace[j])
    /\ Precedes(Step5, Step6)

C15_Witness ==
    /\ pc = "L83"
    /\ exitPath = "L64"
    /\ ~InTrace(Step4)
    /\ trace = <<"Init_Wrappers", "ExceptionHandler", Step1, Step2, Step3,
                 "canonical", Probe, Step5, Step6>>

\* C16 as stated: a step creates steam_appid.txt exactly when it is the
\* provisioning step of an attach whose step 1 succeeded, the file is absent
\* and bio4.exe is present; the new file holds "254700"; nothing else in the
\* filesystem ever changes.
C16_CreatedExactlyWhenMarkerPresent ==
    [][ /\ (fs[APPID] = Absent /\ fs'[APPID] # Absent)
            <=> ( /\ pc = "L26"
                  /\ outcome[Step1] = "ok"
                  /\ fs[APPID] = Absent
                  /\ fs[BIO4EXE] = Present )
        /\ fs' # fs => (fs[APPID] = Absent
                        /\ fs' = [fs EXCEPT ![APPID] = AppIdContent]) ]_vars

\* C16 amended: as above, with the further condition that the file can be
\* opened for writing; when it cannot, no file is created.
C16_CreatedExactlyWhenPossible ==
    [][ /\ (fs[APPID] = Absent /\ fs'[APPID] # Absent)
            <=> ( /\ pc = "L26"
                  /\ outcome[Step1] = "ok"
                  /\ fs[APPID] = Absent
                  /\ fs[BIO4EXE] = Present
                  /\ writable )
        /\ fs' # fs => (fs[APPID] = Absent
                        /\ fs' = [fs EXCEPT ![APPID] = AppIdContent]) ]_vars

C16_Witness ==
    /\ pc = "L34"
    /\ outcome[Step2] = "ok"
    /\ fs[APPID] = AppIdContent
    /\ fs[BIO4EXE] = Present
    /\ procNo = 1 /\ attachNo = 1

\* C17: a notification with a reason other than DLL_PROCESS_ATTACH calls
\* nothing, leaves the attach state, the flag, the handler, the log and the
\* filesystem as they were, and returns true.
C17_OtherReasonsChangeNothing ==
    [][ (notifyNo' = notifyNo + 1 /\ lastReason' # "DLL_PROCESS_ATTACH") =>
          /\ UNCHANGED <<pc, fs, writable, g_module_handle, wrappersInit,
                         handlerInstalled, bIsUsingHDProject, attachNo,
                         trace, outcome, exitPath, log>>
          /\ AttachState' = AttachState
          /\ lastResult' = "true" ]_vars

C17_Witness ==
    /\ lastReason = "DLL_PROCESS_DETACH"
    /\ notifyNo = 2 /\ attachNo = 1
    /\ AttachState = "Ready"
    /\ bIsUsingHDProject
    /\ lastResult = "true"

\* C18: whenever DllMain has returned, it has returned true: for every reason
\* and however Init_Main ended, the return on line 23 after a failure of
\* step 1 included.
C18_DllMainReturnsTrue ==
    /\ lastResult \in {"none", "true"}
    /\ (pc = "host" /\ notifyNo > 0) => lastResult = "true"

C18_Witness ==
    /\ pc = "host"
    /\ lastReason = "DLL_PROCESS_ATTACH"
    /\ exitPath = "L23"
    /\ outcome[Step1] = "failed"
    /\ lastResult = "true"

====
